---- MODULE Spec2Model ----
(***************************************************************************)
(* Model of server.js: the Express handlers of the appointment API, the    *)
(* credential lookup they share and the Calendar Service they call.        *)
(* Instants are minutes counted from 00:00 UTC of the request date; a      *)
(* local time of day 'HH:mm' is the pair <<HH, mm>>.                        *)
(***************************************************************************)
EXTENDS Integers, Sequences, FiniteSets, TLC

(* ---------------- program constants ---------------- *)

\* America/Costa_Rica is UTC-06:00 all year (no DST): local + 360 = UTC.
TzOffsetMin == 360
DefaultDurationMin == 45
DefaultStepMin == 15
DefaultMaxSugs == 3
\* "máximo +3h"
SearchCapMin == 180
MinutesPerDay == 1440

DefaultHorarioInicio == <<9, 0>>
DefaultHorarioFin == <<19, 0>>

(* ---------------- bounds of the model ---------------- *)

\* Events the Calendar Service holds at most (initial ones included).
MaxEvents == 2
\* Free/busy queries one request may issue before the model stops following it.
MaxCalls == 15

\* The tasks that serve requests one after the other.
Tasks == {1}

\* The request slots of the process: two requests can be in flight at once.
Clients == {1, 2}

(* ---------------- request bodies ---------------- *)

\* An optional JSON field is <<>> when absent and <<v>> when present.
Absent == <<>>

Default(field, dflt) == IF field = Absent THEN dflt ELSE field[1]

\* JavaScript falsiness of a body field: undefined or the empty string.
Falsy(field) == field = Absent \/ field[1] = ""

Times == { <<8, 0>>, <<10, 0>>, <<16, 0>> }
DurationVals == { Absent, <<60>> }
StepVals == { Absent, <<0>>, <<200>> }
MaxSugsVals == { Absent, <<0>>, <<1>> }
HorarioFinVals == { Absent, << <<8, 0>> >> }

ValidBodies ==
  [ calendarId : {<<"c1">>}, date : {<<"d">>}, time : { <<t>> : t \in Times },
    durationMin : DurationVals, horarioInicio : {Absent},
    horarioFin : HorarioFinVals, stepMin : StepVals, maxSugs : MaxSugsVals ]

PlainBody ==
  [ calendarId |-> <<"c1">>, date |-> <<"d">>, time |-> << <<10, 0>> >>,
    durationMin |-> Absent, horarioInicio |-> Absent, horarioFin |-> Absent,
    stepMin |-> Absent, maxSugs |-> Absent ]

InvalidBodies ==
  { [PlainBody EXCEPT !.calendarId = Absent],
    [PlainBody EXCEPT !.calendarId = <<"">>],
    [PlainBody EXCEPT !.date = Absent],
    [PlainBody EXCEPT !.time = Absent] }

AvailabilityBodies == ValidBodies \cup InvalidBodies

\* POST /book reads calendarId, date, time and durationMin the same way; the
\* free-text fields (nombre, tel, servicio, barbero, nota, code) only fill the
\* event's summary and description.
BookBodies == { PlainBody } \cup InvalidBodies

\* POST /calendars/create and the routes without a body.
NoBody == [summary |-> Absent]

(* ---------------- time: dayjs.tz, add, format, diff ---------------- *)

\* dayjs.tz(`${date} ${time}`, tz): the instant of a local wall-clock time.
TzParse(hm) == hm[1] * 60 + hm[2] + TzOffsetMin

\* cursor.add(n, 'minute')
AddMinutes(instant, n) == instant + n

\* s.format('HH:mm'): the local wall-clock time of an instant.
FormatHHmm(instant) ==
  LET local == (instant - TzOffsetMin) % MinutesPerDay
  IN  << local \div 60, local % 60 >>

\* cursor.diff(start, 'minute')
DiffMinutes(a, b) == a - b

(* ---------------- state ---------------- *)

VARIABLES
  envTokens,         \* process.env.TOKENS_JSON: "none", "access_only" or "refresh"
  fileTokens,        \* tokens.json on disk: "none" (no file), "access_only" or "refresh"
  events,            \* the Calendar Service's events, in insertion order
  pc,                \* per task: where its handler is suspended
  endpoint,          \* per task: the route of the request it is serving
  body,              \* per task: req.body
  auth,              \* per task: the credentials getOAuth2Client gave the handler
  start,             \* per task: const start
  cursor,            \* per task: let cursor
  sug,               \* per task: const sug = []
  calls,             \* per task: Calendar Service calls issued for the request
  resp,              \* per task: the response sent (status 0: none yet)
  sent,              \* per task: number of responses sent for the request
  told,              \* per client: the slot it was last told is free (<<>>: none)
  boot               \* history: the credentials as they resolved when the process started

globals == << envTokens, fileTokens, events, told, boot >>
vars == << envTokens, fileTokens, events, told, boot,
           pc, endpoint, body, auth, start, cursor, sug, calls, resp, sent >>

TokenStates == { "none", "access_only", "refresh" }

NoResponse == [status |-> 0, body |-> [pending |-> TRUE]]

Event(calId, from, to) == [calendarId |-> calId, start |-> from, end |-> to]

(* ---------------- credentials ---------------- *)

\* Mutant: the file preferred over the inline secret.
readJsonFallback_FileFirst(envValue, fileValue) ==
  IF fileValue # "none" THEN fileValue ELSE envValue

\* readJsonFallback(TOKENS_JSON, TOKEN_PATH)
readJsonFallback(envValue, fileValue) ==
  IF envValue # "none" THEN envValue ELSE fileValue

\* getOAuth2Client().credentials: what setCredentials stored, "none" if nothing.
getOAuth2Client == readJsonFallback(envTokens, fileTokens)

\* Mutant: only the presence of credentials tested, not their refresh_token.
ensureAuthed_AnyToken(credentials) == credentials # "none"

\* ensureAuthed returns normally (TRUE) or throws (FALSE).
ensureAuthed(credentials) == credentials = "refresh"

InitCalendars ==
  { <<>>,
    << Event("c1", TzParse(<<10, 0>>), TzParse(<<10, 45>>)) >>,
    << Event("c1", TzParse(<<7, 0>>), TzParse(<<18, 15>>)) >> }

Init ==
  /\ envTokens \in TokenStates
  /\ fileTokens \in TokenStates
  /\ events \in InitCalendars
  /\ pc = [t \in Clients |-> "idle"]
  /\ endpoint = [t \in Clients |-> "none"]
  /\ body = [t \in Clients |-> PlainBody]
  /\ auth = [t \in Clients |-> "none"]
  /\ start = [t \in Clients |-> 0]
  /\ cursor = [t \in Clients |-> 0]
  /\ sug = [t \in Clients |-> <<>>]
  /\ calls = [t \in Clients |-> <<>>]
  /\ resp = [t \in Clients |-> NoResponse]
  /\ sent = [t \in Clients |-> 0]
  /\ told = [t \in Clients |-> <<>>]
  /\ boot = getOAuth2Client

(* ---------------- Calendar Service ---------------- *)

\* What the service may do with a call: answer with an entry for the calendar,
\* answer without one, or fail (the awaited promise rejects).
Outcomes == { "ok", "noentry", "fail" }

\* The busy list of calendar calId over [timeMin, timeMax).
QueryBusy(calId, timeMin, timeMax) ==
  { i \in 1..Len(events) :
      /\ events[i].calendarId = calId
      /\ events[i].start < timeMax
      /\ events[i].end > timeMin }

\* Mutant: a response without an entry for the calendar read as fully busy.
BusyOf_MissingMeansBusy(outcome, calId, timeMin, timeMax) ==
  IF outcome = "ok" THEN QueryBusy(calId, timeMin, timeMax) ELSE {0}

\* fb.data.calendars[calendarId]?.busy || []
BusyOf(outcome, calId, timeMin, timeMax) ==
  IF outcome = "ok" THEN QueryBusy(calId, timeMin, timeMax) ELSE {}

Call(op, calId, timeMin, timeMax) ==
  [op |-> op, calendarId |-> calId,
   timeMin |-> timeMin, timeMax |-> timeMax, res |-> "pending", entry |-> TRUE]

\* cal.freebusy.query({ requestBody: { timeMin, timeMax, timeZone, items } })
FreeBusyCall(calId, timeMin, timeMax) == Call("freebusy.query", calId, timeMin, timeMax)

\* The last call of the log, answered.
Answered(log, res) == [log EXCEPT ![Len(log)].res = res]

\* The last call of the log, answered with or without an entry for the calendar.
AnsweredWith(log, outcome, res) ==
  [log EXCEPT ![Len(log)].res = res, ![Len(log)].entry = (outcome # "noentry")]

(* ---------------- handler locals ---------------- *)

Locals(t) ==
  [pc |-> pc[t], start |-> start[t], cursor |-> cursor[t], sug |-> sug[t],
   calls |-> calls[t], resp |-> resp[t], sent |-> sent[t]]

FreshLocals ==
  [pc |-> "running", start |-> 0, cursor |-> 0, sug |-> <<>>,
   calls |-> <<>>, resp |-> NoResponse, sent |-> 0]

SetLocals(t, l) ==
  /\ pc' = [pc EXCEPT ![t] = l.pc]
  /\ start' = [start EXCEPT ![t] = l.start]
  /\ cursor' = [cursor EXCEPT ![t] = l.cursor]
  /\ sug' = [sug EXCEPT ![t] = l.sug]
  /\ calls' = [calls EXCEPT ![t] = l.calls]
  /\ resp' = [resp EXCEPT ![t] = l.resp]
  /\ sent' = [sent EXCEPT ![t] = l.sent]

\* res.status(status).json(b), after which the handler returns.
Send(l, status, b) ==
  [l EXCEPT !.pc = "done", !.resp = [status |-> status, body |-> b], !.sent = @ + 1]

\* A task serves one request; its slot is free again once the handler has returned.
Ready(t) == pc[t] = "idle"

(* ---------------- POST /availability ---------------- *)

\* if (!calendarId || !date || !time)
MissingFields(b) == Falsy(b.calendarId) \/ Falsy(b.date) \/ Falsy(b.time)

DurationOf(b) == Default(b.durationMin, DefaultDurationMin)
StepOf(b) == Default(b.stepMin, DefaultStepMin)
MaxSugsOf(b) == Default(b.maxSugs, DefaultMaxSugs)
WorkStartOf(b) == TzParse(Default(b.horarioInicio, DefaultHorarioInicio))
WorkEndOf(b) == TzParse(Default(b.horarioFin, DefaultHorarioFin))

\* if (busy.length === 0) / if (b2.length === 0)
NoBusy(busy) == Cardinality(busy) = 0

\* Mutant: the loop test off by one (<= for <).
LoopCond_OffByOne(sg, maxSugs) == Len(sg) <= maxSugs

\* while (sug.length < maxSugs)
LoopCond(sg, maxSugs) == Len(sg) < maxSugs

\* Mutant: the upper bound tested on the slot's start instead of its end.
OutsideHours_StartOnly(s, e, workStart, workEnd) == s < workStart \/ s > workEnd

\* Mutant: the upper bound made exclusive (a slot ending at workEnd refused).
OutsideHours_Exclusive(s, e, workStart, workEnd) == s < workStart \/ e >= workEnd

\* if (s.isBefore(workStart) || e.isAfter(workEnd)) break
OutsideHours(s, e, workStart, workEnd) == s < workStart \/ e > workEnd

\* if (cursor.diff(start, 'minute') > 180) break
CapExceeded(cur, st) == DiffMinutes(cur, st) > SearchCapMin

Unavailable(sg) == [disponible |-> FALSE, sugerencias |-> sg]

\* Mutant: the cursor advanced by durationMin instead of stepMin.
Scan_StepByDuration(l, b) ==
  IF LoopCond(l.sug, MaxSugsOf(b))
  THEN LET c == AddMinutes(l.cursor, DurationOf(b))
           s == c
           e == AddMinutes(s, DurationOf(b))
       IN  IF OutsideHours(s, e, WorkStartOf(b), WorkEndOf(b))
           THEN Send([l EXCEPT !.cursor = c], 200, Unavailable(l.sug))
           ELSE [l EXCEPT !.cursor = c, !.pc = "await_candidate",
                          !.calls = Append(@, FreeBusyCall(b.calendarId[1], s, e))]
  ELSE Send(l, 200, Unavailable(l.sug))

\* Mutant: the candidate computed from the cursor but the cursor never reassigned.
Scan_NoAdvance(l, b) ==
  IF LoopCond(l.sug, MaxSugsOf(b))
  THEN LET s == AddMinutes(l.start, StepOf(b))
           e == AddMinutes(s, DurationOf(b))
       IN  IF OutsideHours(s, e, WorkStartOf(b), WorkEndOf(b))
           THEN Send(l, 200, Unavailable(l.sug))
           ELSE [l EXCEPT !.pc = "await_candidate",
                          !.calls = Append(@, FreeBusyCall(b.calendarId[1], s, e))]
  ELSE Send(l, 200, Unavailable(l.sug))

\* The while loop from its head to its next await, or to the response after it.
Scan(l, b) ==
  IF LoopCond(l.sug, MaxSugsOf(b))
  THEN LET c == AddMinutes(l.cursor, StepOf(b))
           s == c
           e == AddMinutes(s, DurationOf(b))
       IN  IF OutsideHours(s, e, WorkStartOf(b), WorkEndOf(b))
           THEN Send([l EXCEPT !.cursor = c], 200, Unavailable(l.sug))
           ELSE [l EXCEPT !.cursor = c, !.pc = "await_candidate",
                          !.calls = Append(@, FreeBusyCall(b.calendarId[1], s, e))]
  ELSE Send(l, 200, Unavailable(l.sug))

\* Mutant: the authentication guard moved before the validation of the fields.
AvailabilityEntry_AuthFirst(b, credentials) ==
  IF ~ensureAuthed(credentials)
  THEN Send(FreshLocals, 500, [error |-> "availability_failed"])
  ELSE IF MissingFields(b)
  THEN Send(FreshLocals, 400, [error |-> "missing_fields"])
  ELSE LET st == TzParse(b.time[1])
           en == AddMinutes(st, DurationOf(b))
       IN  [FreshLocals EXCEPT !.pc = "await_primary", !.start = st,
                               !.calls = << FreeBusyCall(b.calendarId[1], st, en) >>]

\* Mutant: the working hours applied to the primary slot before it is queried.
AvailabilityEntry_HoursFirst(b, credentials) ==
  IF MissingFields(b)
  THEN Send(FreshLocals, 400, [error |-> "missing_fields"])
  ELSE IF ~ensureAuthed(credentials)
  THEN Send(FreshLocals, 500, [error |-> "availability_failed"])
  ELSE LET st == TzParse(b.time[1])
           en == AddMinutes(st, DurationOf(b))
       IN  IF OutsideHours(st, en, WorkStartOf(b), WorkEndOf(b))
           THEN Send([FreshLocals EXCEPT !.start = st], 200, Unavailable(<<>>))
           ELSE [FreshLocals EXCEPT !.pc = "await_primary", !.start = st,
                                    !.calls = << FreeBusyCall(b.calendarId[1], st, en) >>]

\* The handler from its entry to the first free/busy query.
AvailabilityEntry(b, credentials) ==
  IF MissingFields(b)
  THEN Send(FreshLocals, 400, [error |-> "missing_fields"])
  ELSE IF ~ensureAuthed(credentials)
  THEN Send(FreshLocals, 500, [error |-> "availability_failed"])
  ELSE LET st == TzParse(b.time[1])
           en == AddMinutes(st, DurationOf(b))
       IN  [FreshLocals EXCEPT !.pc = "await_primary", !.start = st,
                               !.calls = << FreeBusyCall(b.calendarId[1], st, en) >>]

\* Mutant: the return of the free branch forgotten, so the scan runs anyway.
AfterPrimary_NoReturn(l, b, outcome) ==
  IF outcome = "fail"
  THEN Send([l EXCEPT !.calls = Answered(@, "fail")], 500, [error |-> "availability_failed"])
  ELSE LET q == l.calls[Len(l.calls)]
           busy == BusyOf(outcome, q.calendarId, q.timeMin, q.timeMax)
           res == IF NoBusy(busy) THEN "empty" ELSE "busy"
       IN  Scan([l EXCEPT !.calls = AnsweredWith(@, outcome, res), !.cursor = l.start], b)

\* Mutant: the suggestion list declared outside the handler, so that a request
\* starts its scan with what the first task's request has collected.
AfterPrimary_SharedSug(l, b, outcome) ==
  IF outcome = "fail"
  THEN Send([l EXCEPT !.calls = Answered(@, "fail")], 500, [error |-> "availability_failed"])
  ELSE LET q == l.calls[Len(l.calls)]
           busy == BusyOf(outcome, q.calendarId, q.timeMin, q.timeMax)
       IN  IF NoBusy(busy)
           THEN Send([l EXCEPT !.calls = AnsweredWith(@, outcome, "empty")], 200,
                     [disponible |-> TRUE, sugerencias |-> <<>>])
           ELSE Scan([l EXCEPT !.calls = AnsweredWith(@, outcome, "busy"),
                               !.cursor = l.start, !.sug = sug[1]], b)

\* The handler from the primary query's answer on.
AfterPrimary(l, b, outcome) ==
  IF outcome = "fail"
  THEN Send([l EXCEPT !.calls = Answered(@, "fail")], 500, [error |-> "availability_failed"])
  ELSE LET q == l.calls[Len(l.calls)]
           busy == BusyOf(outcome, q.calendarId, q.timeMin, q.timeMax)
       IN  IF NoBusy(busy)
           THEN Send([l EXCEPT !.calls = AnsweredWith(@, outcome, "empty")], 200,
                     [disponible |-> TRUE, sugerencias |-> <<>>])
           ELSE Scan([l EXCEPT !.calls = AnsweredWith(@, outcome, "busy"),
                               !.cursor = l.start], b)

\* Mutant: the test of the candidate's busy list inverted.
AfterCandidate_PushBusy(l, b, outcome) ==
  IF outcome = "fail"
  THEN Send([l EXCEPT !.calls = Answered(@, "fail")], 500, [error |-> "availability_failed"])
  ELSE LET q == l.calls[Len(l.calls)]
           b2 == BusyOf(outcome, q.calendarId, q.timeMin, q.timeMax)
           l2 == IF ~NoBusy(b2)
                 THEN [l EXCEPT !.calls = AnsweredWith(@, outcome, "busy"),
                                !.sug = Append(@, FormatHHmm(l.cursor))]
                 ELSE [l EXCEPT !.calls = AnsweredWith(@, outcome, "empty")]
       IN  IF CapExceeded(l2.cursor, l2.start)
           THEN Send(l2, 200, Unavailable(l2.sug))
           ELSE Scan(l2, b)

\* The handler from a candidate query's answer on.
AfterCandidate(l, b, outcome) ==
  IF outcome = "fail"
  THEN Send([l EXCEPT !.calls = Answered(@, "fail")], 500, [error |-> "availability_failed"])
  ELSE LET q == l.calls[Len(l.calls)]
           b2 == BusyOf(outcome, q.calendarId, q.timeMin, q.timeMax)
           l2 == IF NoBusy(b2)
                 THEN [l EXCEPT !.calls = AnsweredWith(@, outcome, "empty"),
                                !.sug = Append(@, FormatHHmm(l.cursor))]
                 ELSE [l EXCEPT !.calls = AnsweredWith(@, outcome, "busy")]
       IN  IF CapExceeded(l2.cursor, l2.start)
           THEN Send(l2, 200, Unavailable(l2.sug))
           ELSE Scan(l2, b)

AvailabilityRequest(t, b) ==
  /\ Ready(t)
  /\ endpoint' = [endpoint EXCEPT ![t] = "availability"]
  /\ body' = [body EXCEPT ![t] = b]
  /\ auth' = [auth EXCEPT ![t] = IF MissingFields(b) THEN "unread" ELSE getOAuth2Client]
  /\ SetLocals(t, AvailabilityEntry(b, getOAuth2Client))
  /\ UNCHANGED globals

PrimaryAnswer(t, outcome) ==
  /\ pc[t] = "await_primary"
  /\ LET l == AfterPrimary(Locals(t), body[t], outcome)
     IN  /\ Len(l.calls) <= MaxCalls
         /\ SetLocals(t, l)
  /\ UNCHANGED << globals, endpoint, body, auth >>

CandidateAnswer(t, outcome) ==
  /\ pc[t] = "await_candidate"
  /\ LET l == AfterCandidate(Locals(t), body[t], outcome)
     IN  /\ Len(l.calls) <= MaxCalls
         /\ SetLocals(t, l)
  /\ UNCHANGED << globals, endpoint, body, auth >>

(* ---------------- GET /calendars/list ---------------- *)

ListEntry(credentials) ==
  IF ~ensureAuthed(credentials)
  THEN Send(FreshLocals, 500, [error |-> "list_failed"])
  ELSE [FreshLocals EXCEPT !.pc = "await_list",
                           !.calls = << Call("calendarList.list", "", 0, 0) >>]

ListRequest(t) ==
  /\ Ready(t)
  /\ endpoint' = [endpoint EXCEPT ![t] = "calendars/list"]
  /\ body' = [body EXCEPT ![t] = NoBody]
  /\ auth' = [auth EXCEPT ![t] = getOAuth2Client]
  /\ SetLocals(t, ListEntry(getOAuth2Client))
  /\ UNCHANGED globals

ListAnswer(t, outcome) ==
  /\ pc[t] = "await_list"
  /\ outcome # "noentry"
  /\ LET l == Locals(t)
     IN  SetLocals(t,
           IF outcome = "fail"
           THEN Send([l EXCEPT !.calls = Answered(@, "fail")], 500, [error |-> "list_failed"])
           ELSE Send([l EXCEPT !.calls = Answered(@, "ok")], 200,
                     [items |-> "calendars"]))
  /\ UNCHANGED << globals, endpoint, body, auth >>

(* ---------------- POST /calendars/create ---------------- *)

CreateEntry(credentials) ==
  IF ~ensureAuthed(credentials)
  THEN Send(FreshLocals, 500, [ok |-> FALSE, error |-> "create_calendar_failed"])
  ELSE [FreshLocals EXCEPT !.pc = "await_insert",
                           !.calls = << Call("calendars.insert", "", 0, 0) >>]

CreateRequest(t) ==
  /\ Ready(t)
  /\ endpoint' = [endpoint EXCEPT ![t] = "calendars/create"]
  /\ body' = [body EXCEPT ![t] = NoBody]
  /\ auth' = [auth EXCEPT ![t] = getOAuth2Client]
  /\ SetLocals(t, CreateEntry(getOAuth2Client))
  /\ UNCHANGED globals

CreateAnswer(t, outcome) ==
  /\ pc[t] = "await_insert"
  /\ outcome # "noentry"
  /\ LET l == Locals(t)
     IN  IF outcome = "fail"
         THEN SetLocals(t, Send([l EXCEPT !.calls = Answered(@, "fail")], 500,
                                [ok |-> FALSE, error |-> "create_calendar_failed"]))
         ELSE SetLocals(t, Send([l EXCEPT !.calls = Answered(@, "ok")], 200,
                                [ok |-> TRUE, id |-> "calendar"]))
  /\ UNCHANGED << globals, endpoint, body, auth >>

(* ---------------- POST /book ---------------- *)

\* Mutant: the booking looks the slot up first and refuses a busy one.
BookEntry_RefusesBusy(b, credentials) ==
  IF MissingFields(b)
  THEN Send(FreshLocals, 400, [error |-> "missing_fields"])
  ELSE IF ~ensureAuthed(credentials)
  THEN Send(FreshLocals, 500, [ok |-> FALSE, error |-> "booking_failed"])
  ELSE LET st == TzParse(b.time[1])
           en == AddMinutes(st, DurationOf(b))
       IN  IF QueryBusy(b.calendarId[1], st, en) # {}
           THEN Send([FreshLocals EXCEPT !.start = st], 409,
                     [ok |-> FALSE, error |-> "slot_taken"])
           ELSE [FreshLocals EXCEPT !.pc = "await_event", !.start = st,
                                    !.calls = << Call("events.insert", b.calendarId[1], st, en) >>]

\* Mutant: a failed guard answered 401 instead of going through the catch.
BookEntry_Unauthorized(b, credentials) ==
  IF MissingFields(b)
  THEN Send(FreshLocals, 400, [error |-> "missing_fields"])
  ELSE IF ~ensureAuthed(credentials)
  THEN Send(FreshLocals, 401, [ok |-> FALSE, error |-> "unauthorized"])
  ELSE LET st == TzParse(b.time[1])
           en == AddMinutes(st, DurationOf(b))
       IN  [FreshLocals EXCEPT !.pc = "await_event", !.start = st,
                               !.calls = << Call("events.insert", b.calendarId[1], st, en) >>]

\* The handler from its entry to the event insert.
BookEntry(b, credentials) ==
  IF MissingFields(b)
  THEN Send(FreshLocals, 400, [error |-> "missing_fields"])
  ELSE IF ~ensureAuthed(credentials)
  THEN Send(FreshLocals, 500, [ok |-> FALSE, error |-> "booking_failed"])
  ELSE LET st == TzParse(b.time[1])
           en == AddMinutes(st, DurationOf(b))
       IN  [FreshLocals EXCEPT !.pc = "await_event", !.start = st,
                               !.calls = << Call("events.insert", b.calendarId[1], st, en) >>]

BookRequest(t, b) ==
  /\ Ready(t)
  /\ endpoint' = [endpoint EXCEPT ![t] = "book"]
  /\ body' = [body EXCEPT ![t] = b]
  /\ auth' = [auth EXCEPT ![t] = IF MissingFields(b) THEN "unread" ELSE getOAuth2Client]
  /\ SetLocals(t, BookEntry(b, getOAuth2Client))
  /\ UNCHANGED globals

\* Mutant: an insert that lands on an occupied slot detected and undone.
BookAnswer_DetectsOverlap(t, outcome) ==
  /\ pc[t] = "await_event"
  /\ outcome # "noentry"
  /\ LET l == Locals(t)
         q == l.calls[Len(l.calls)]
     IN  IF outcome = "fail"
         THEN /\ SetLocals(t, Send([l EXCEPT !.calls = Answered(@, "fail")], 500,
                                   [ok |-> FALSE, error |-> "booking_failed"]))
              /\ UNCHANGED events
         ELSE IF QueryBusy(q.calendarId, q.timeMin, q.timeMax) # {}
         THEN /\ SetLocals(t, Send([l EXCEPT !.calls = Answered(@, "ok")], 409,
                                   [ok |-> FALSE, error |-> "slot_taken"]))
              /\ UNCHANGED events
         ELSE /\ Len(events) < MaxEvents
              /\ events' = Append(events, Event(q.calendarId, q.timeMin, q.timeMax))
              /\ SetLocals(t, Send([l EXCEPT !.calls = Answered(@, "ok")], 200,
                                   [ok |-> TRUE, eventId |-> Len(events) + 1]))
  /\ UNCHANGED << envTokens, fileTokens, told, boot, endpoint, body, auth >>

BookAnswer(t, outcome) ==
  /\ pc[t] = "await_event"
  /\ outcome # "noentry"
  /\ LET l == Locals(t)
         q == l.calls[Len(l.calls)]
     IN  IF outcome = "fail"
         THEN /\ SetLocals(t, Send([l EXCEPT !.calls = Answered(@, "fail")], 500,
                                   [ok |-> FALSE, error |-> "booking_failed"]))
              /\ UNCHANGED events
         ELSE /\ Len(events) < MaxEvents
              /\ events' = Append(events, Event(q.calendarId, q.timeMin, q.timeMax))
              /\ SetLocals(t, Send([l EXCEPT !.calls = Answered(@, "ok")], 200,
                                   [ok |-> TRUE, eventId |-> Len(events) + 1]))
  /\ UNCHANGED << envTokens, fileTokens, told, boot, endpoint, body, auth >>

(* ---------------- GET /oauth2callback ---------------- *)

OAuthCallbackRequest(t) ==
  /\ Ready(t)
  /\ endpoint' = [endpoint EXCEPT ![t] = "oauth2callback"]
  /\ body' = [body EXCEPT ![t] = NoBody]
  /\ auth' = [auth EXCEPT ![t] = getOAuth2Client]
  /\ SetLocals(t, [FreshLocals EXCEPT !.pc = "await_token",
                                      !.calls = << Call("getToken", "", 0, 0) >>])
  /\ UNCHANGED globals

\* tokens: what the Authorization Provider returned; written: whether
\* fs.writeFileSync succeeded (its failure is caught and only logged).
TokenAnswer(t, outcome, tokens, written) ==
  /\ pc[t] = "await_token"
  /\ outcome # "noentry"
  /\ LET l == Locals(t)
     IN  IF outcome = "fail"
         THEN /\ SetLocals(t, Send([l EXCEPT !.calls = Answered(@, "fail")], 500,
                                   [text |-> "Auth error"]))
              /\ UNCHANGED fileTokens
         ELSE /\ fileTokens' = IF written THEN tokens ELSE fileTokens
              /\ SetLocals(t, Send([l EXCEPT !.calls = Answered(@, "ok")], 200,
                                   [text |-> "Tokens guardados"]))
  /\ UNCHANGED << envTokens, events, told, boot, endpoint, body, auth >>

(* ---------------- end of a request ---------------- *)

\* The handler has returned and its locals are gone.
Finish(t) ==
  /\ pc[t] = "done"
  /\ endpoint' = [endpoint EXCEPT ![t] = "none"]
  /\ body' = [body EXCEPT ![t] = PlainBody]
  /\ auth' = [auth EXCEPT ![t] = "none"]
  /\ SetLocals(t, [FreshLocals EXCEPT !.pc = "idle"])
  /\ UNCHANGED globals

\* The same, seen from the caller: it reads the response and remembers the slot
\* an /availability answer declared free, as a caller that checks before it books.
ClientNotes(t) ==
  /\ pc[t] = "done"
  /\ told' = [told EXCEPT ![t] =
                IF endpoint[t] = "availability" /\ resp[t].status = 200
                THEN IF resp[t].body.disponible
                     THEN << start[t], AddMinutes(start[t], DurationOf(body[t])) >>
                     ELSE <<>>
                ELSE @]
  /\ endpoint' = [endpoint EXCEPT ![t] = "none"]
  /\ body' = [body EXCEPT ![t] = PlainBody]
  /\ auth' = [auth EXCEPT ![t] = "none"]
  /\ SetLocals(t, [FreshLocals EXCEPT !.pc = "idle"])
  /\ UNCHANGED << envTokens, fileTokens, events, boot >>

(* ---------------- specification ---------------- *)

Next ==
  \E t \in Tasks :
    \/ \E b \in AvailabilityBodies : AvailabilityRequest(t, b)
    \/ \E o \in Outcomes : PrimaryAnswer(t, o)
    \/ \E o \in Outcomes : CandidateAnswer(t, o)
    \/ ListRequest(t)
    \/ \E o \in Outcomes : ListAnswer(t, o)
    \/ CreateRequest(t)
    \/ \E o \in Outcomes : CreateAnswer(t, o)
    \/ \E b \in BookBodies : BookRequest(t, b)
    \/ \E o \in Outcomes : BookAnswer(t, o)
    \/ OAuthCallbackRequest(t)
    \/ \E o \in Outcomes, tokens \in { "access_only", "refresh" }, written \in BOOLEAN :
         TokenAnswer(t, o, tokens, written)
    \/ Finish(t)

Spec == Init /\ [][Next]_vars

(* ---------------- every Calendar Service call returns or fails ---------------- *)

InitLive ==
  /\ Init
  /\ envTokens = "refresh"
  /\ fileTokens = "none"

NextLive ==
  \E t \in Tasks :
    \/ \E b \in AvailabilityBodies : AvailabilityRequest(t, b)
    \/ \E o \in Outcomes : PrimaryAnswer(t, o)
    \/ \E o \in Outcomes : CandidateAnswer(t, o)
    \/ Finish(t)

\* await cal.freebusy.query(...) resumes the handler with a result or an error.
SpecLive ==
  /\ InitLive
  /\ [][NextLive]_vars
  /\ \A t \in Tasks : WF_vars(\E o \in Outcomes : PrimaryAnswer(t, o))
  /\ \A t \in Tasks : WF_vars(\E o \in Outcomes : CandidateAnswer(t, o))

(* ---------------- two requests in flight ---------------- *)

\* The bodies of the concurrent runs: one suggestion wanted, two step widths.
TwinBodies ==
  { [PlainBody EXCEPT !.maxSugs = <<1>>],
    [PlainBody EXCEPT !.maxSugs = <<1>>, !.stepMin = <<200>>] }

InitConc ==
  /\ Init
  /\ envTokens = "none"
  /\ fileTokens = "refresh"

\* Each request is its own task; an await suspends it and lets the other run.
NextConc ==
  \E t \in Clients :
    \/ \E b \in TwinBodies : AvailabilityRequest(t, b)
    \/ \E o \in Outcomes : PrimaryAnswer(t, o)
    \/ \E o \in Outcomes : CandidateAnswer(t, o)
    \/ BookRequest(t, PlainBody)
    \/ \E o \in Outcomes : BookAnswer(t, o)
    \/ ClientNotes(t)

SpecConc == InitConc /\ [][NextConc]_vars

(* ---------------- properties ---------------- *)

\* The candidate queries of task t's request: every call after the primary one.
Candidates(t) == SubSeq(calls[t], 2, Len(calls[t]))

\* The HH:mm starts of the candidates whose busy list came back empty, in scan order.
FreeStarts(t) ==
  LET free == SelectSeq(Candidates(t), LAMBDA c : c.res = "empty")
  IN  [i \in 1..Len(free) |-> FormatHHmm(free[i].timeMin)]

\* Task t has answered an /availability request with a verdict.
Answered200(t) ==
  endpoint[t] = "availability" /\ pc[t] = "done" /\ resp[t].status = 200

\* Task t has answered that the primary slot is busy.
AnsweredBusy(t) == Answered200(t) /\ ~resp[t].body.disponible

\* C1: when the primary query of an /availability request comes back with an
\* empty busy list, the response is {disponible: true, sugerencias: []} and
\* that query is the only one the request ever issues.
C1_PrimaryFreeShortCircuit ==
  \A t \in Tasks :
    (endpoint[t] = "availability" /\ Len(calls[t]) >= 1 /\ calls[t][1].res = "empty")
      => /\ Len(calls[t]) = 1
         /\ pc[t] = "done"
         /\ sent[t] = 1
         /\ resp[t] = [status |-> 200,
                       body |-> [disponible |-> TRUE, sugerencias |-> <<>>]]

C1_Witness ==
  \E t \in Tasks :
    /\ endpoint[t] = "availability" /\ pc[t] = "done"
    /\ Len(calls[t]) = 1 /\ calls[t][1].res = "empty"
    /\ resp[t].status = 200 /\ resp[t].body.disponible

\* C2: when the primary slot is busy, the k-th candidate queried is the slot at
\* offset k * stepMin from the primary start, and the suggestions returned are
\* exactly the HH:mm starts of the candidates whose own query came back empty,
\* in scan order: no busy candidate is suggested, no free one is skipped, and
\* with every scanned candidate busy the answer is {disponible: false, sugerencias: []}.
C2_SuggestionsAreTheFreeCandidates ==
  \A t \in Tasks :
    AnsweredBusy(t) =>
      /\ calls[t][1].res = "busy"
      /\ \A k \in 1..Len(Candidates(t)) :
           /\ Candidates(t)[k].timeMin = start[t] + k * StepOf(body[t])
           /\ Candidates(t)[k].timeMax = Candidates(t)[k].timeMin + DurationOf(body[t])
           /\ Candidates(t)[k].res \in { "empty", "busy" }
      /\ resp[t].body.sugerencias = FreeStarts(t)
      /\ ((\A k \in 1..Len(Candidates(t)) : Candidates(t)[k].res = "busy")
            => resp[t].body = [disponible |-> FALSE, sugerencias |-> <<>>])

\* Scenario 2: busy candidates scanned before a free one is suggested.
C2_Witness ==
  \E t \in Tasks :
    /\ AnsweredBusy(t)
    /\ Len(Candidates(t)) >= 3
    /\ Candidates(t)[1].res = "busy" /\ Candidates(t)[2].res = "busy"
    /\ Candidates(t)[3].res = "empty"
    /\ resp[t].body.sugerencias = << FormatHHmm(start[t] + 3 * StepOf(body[t])) >>

\* C3: the suggestions collected, and those returned, never number more than
\* maxSugs, and no candidate query is issued once maxSugs candidates have
\* come back free.
C3_AtMostMaxSugs ==
  \A t \in Tasks :
    endpoint[t] = "availability" =>
      /\ Len(sug[t]) <= MaxSugsOf(body[t])
      /\ (Answered200(t) => Len(resp[t].body.sugerencias) <= MaxSugsOf(body[t]))
      /\ \A k \in 1..Len(Candidates(t)) :
           Cardinality({ j \in 1..(k - 1) : Candidates(t)[j].res = "empty" })
             < MaxSugsOf(body[t])

\* The scan stopped because maxSugs suggestions were collected.
C3_Witness ==
  \E t \in Tasks :
    /\ AnsweredBusy(t)
    /\ MaxSugsOf(body[t]) = DefaultMaxSugs
    /\ Len(resp[t].body.sugerencias) = MaxSugsOf(body[t])
    /\ ~CapExceeded(cursor[t], start[t])

\* C4: with stepMin > 0 the suggestions are in non-decreasing chronological
\* order and each is the primary start plus a positive multiple of stepMin.
C4_OrderedMultiplesOfStep ==
  \A t \in Tasks :
    (endpoint[t] = "availability" /\ StepOf(body[t]) > 0) =>
      LET out == IF AnsweredBusy(t) THEN resp[t].body.sugerencias ELSE sug[t]
      IN  /\ \A i \in 1..Len(out) :
               \E k \in 1..MaxCalls : TzParse(out[i]) = start[t] + k * StepOf(body[t])
          /\ \A i, j \in 1..Len(out) : i < j => TzParse(out[i]) <= TzParse(out[j])

C4_Witness ==
  \E t \in Tasks :
    /\ AnsweredBusy(t)
    /\ StepOf(body[t]) > 0
    /\ Len(resp[t].body.sugerencias) >= 2

\* C5: every suggested slot, and every candidate queried, lies inside the
\* working hours for its whole duration: start >= workStart and
\* start + durationMin <= workEnd.
C5_InsideWorkingHours ==
  \A t \in Tasks :
    endpoint[t] = "availability" =>
      LET out == IF AnsweredBusy(t) THEN resp[t].body.sugerencias ELSE sug[t]
      IN  /\ \A i \in 1..Len(out) :
               /\ TzParse(out[i]) >= WorkStartOf(body[t])
               /\ TzParse(out[i]) + DurationOf(body[t]) <= WorkEndOf(body[t])
          /\ \A k \in 1..Len(Candidates(t)) :
               /\ Candidates(t)[k].timeMin >= WorkStartOf(body[t])
               /\ Candidates(t)[k].timeMax <= WorkEndOf(body[t])

\* A suggestion was returned and the scan ended at the first candidate running
\* past workEnd.
C5_Witness ==
  \E t \in Tasks :
    /\ AnsweredBusy(t)
    /\ Len(resp[t].body.sugerencias) >= 1
    /\ cursor[t] + DurationOf(body[t]) > WorkEndOf(body[t])
    /\ cursor[t] <= WorkEndOf(body[t])

CeilDiv(a, b) == (a + b - 1) \div b

\* C6: with stepMin > 0 the forward scan issues at most ceil(180 / stepMin)
\* candidate queries.
C6_QueryVolumeBound ==
  \A t \in Tasks :
    (endpoint[t] = "availability" /\ StepOf(body[t]) > 0) =>
      Len(Candidates(t)) <= CeilDiv(SearchCapMin, StepOf(body[t]))

\* C7: no candidate queried and no suggestion returned starts more than 180
\* minutes after the primary start; with stepMin > 180 nothing is suggested.
C7_NothingBeyondCap ==
  \A t \in Tasks :
    endpoint[t] = "availability" =>
      /\ \A k \in 1..Len(Candidates(t)) :
           DiffMinutes(Candidates(t)[k].timeMin, start[t]) <= SearchCapMin
      /\ \A i \in 1..Len(sug[t]) :
           DiffMinutes(TzParse(sug[t][i]), start[t]) <= SearchCapMin
      /\ (AnsweredBusy(t) /\ StepOf(body[t]) > SearchCapMin
            => resp[t].body.sugerencias = <<>>)

\* Routes whose handler calls the Calendar Service.
CalendarEndpoints == { "calendars/list", "calendars/create", "availability", "book" }

\* C8: an /availability request missing calendarId, date or time is answered
\* 400 {error: "missing_fields"}; the credentials are never read for it and no
\* Calendar Service call is issued.
C8_ValidationFirst ==
  \A t \in Tasks :
    (/\ endpoint[t] = "availability"
     /\ (body[t].calendarId = Absent \/ body[t].date = Absent \/ body[t].time = Absent))
      => /\ pc[t] = "done"
         /\ resp[t] = [status |-> 400, body |-> [error |-> "missing_fields"]]
         /\ auth[t] = "unread"
         /\ calls[t] = <<>>

\* A request with a missing field arrives while no refresh credential is stored.
C8_Witness ==
  \E t \in Tasks :
    /\ endpoint[t] = "availability"
    /\ body[t].calendarId = Absent
    /\ getOAuth2Client # "refresh"
    /\ resp[t].status = 400

\* C9 as claimed: in every Calendar endpoint, a request arriving while no
\* refresh credential is present fails with 500 and issues no call.
C9_NoCredentialMeans500 ==
  \A t \in Tasks :
    (endpoint[t] \in CalendarEndpoints /\ getOAuth2Client # "refresh")
      => /\ resp[t].status = 500
         /\ calls[t] = <<>>

\* C9, amended: in every Calendar endpoint a request that has passed the
\* validation of its fields and finds no refresh credential fails with 500 and
\* no Calendar Service call; a request stopped by the validation is answered
\* 400 with no call either; and a call is only ever issued by a handler whose
\* guard found a refresh credential.
C9_GuardBeforeCalls ==
  \A t \in Tasks :
    endpoint[t] \in CalendarEndpoints =>
      /\ auth[t] \in { "none", "access_only" }
           => pc[t] = "done" /\ resp[t].status = 500 /\ calls[t] = <<>>
      /\ auth[t] = "unread"
           => pc[t] = "done" /\ resp[t].status = 400 /\ calls[t] = <<>>
      /\ calls[t] # <<>> => auth[t] = "refresh"

\* The guard rejected stored tokens that carry no refresh_token.
C9_Witness ==
  \E t \in Tasks :
    /\ endpoint[t] \in CalendarEndpoints
    /\ auth[t] = "access_only"
    /\ resp[t].status = 500
    /\ calls[t] = <<>>

\* The interval a call asks about.
Slot(c) == << c.timeMin, c.timeMax >>

\* C10: when a free/busy query of an /availability request fails, the response
\* is 500 {error: "availability_failed"} without suggestions, the failed query
\* is the last one issued, and no slot was queried twice.
C10_AbortOnFirstFailure ==
  \A t \in Tasks :
    (endpoint[t] = "availability" /\ \E k \in 1..Len(calls[t]) : calls[t][k].res = "fail")
      => /\ pc[t] = "done"
         /\ resp[t] = [status |-> 500, body |-> [error |-> "availability_failed"]]
         /\ calls[t][Len(calls[t])].res = "fail"
         /\ \A i, j \in 1..Len(calls[t]) :
              i < j => Slot(calls[t][i]) # Slot(calls[t][j])

\* The same with the repeated-slot clause kept to stepMin > 0: this much of the
\* abort contract holds of every request, so C10 fails through stepMin = 0 alone.
AbortOnFirstFailure_StepPositive ==
  \A t \in Tasks :
    (endpoint[t] = "availability" /\ \E k \in 1..Len(calls[t]) : calls[t][k].res = "fail")
      => /\ pc[t] = "done"
         /\ resp[t] = [status |-> 500, body |-> [error |-> "availability_failed"]]
         /\ calls[t][Len(calls[t])].res = "fail"
         /\ StepOf(body[t]) > 0 =>
              \A i, j \in 1..Len(calls[t]) :
                i < j => Slot(calls[t][i]) # Slot(calls[t][j])

\* The slot a /book or /availability body asks for.
SlotOf(b) == << TzParse(b.time[1]), TzParse(b.time[1]) + DurationOf(b) >>

\* Two intervals that share some time.
Overlap(a, b) == a.start < b.end /\ b.start < a.end

\* C11: a /book request with its fields present and a refresh credential
\* issues exactly one call, an event insert for its slot, and no free/busy
\* query; whenever the insert succeeds the answer is {ok: true, eventId} and
\* the event is on the calendar, whatever the calendar held before.
C11_BookingIsDecoupled ==
  \A t \in Tasks :
    (endpoint[t] = "book" /\ ~MissingFields(body[t]) /\ auth[t] = "refresh") =>
      /\ Len(calls[t]) = 1
      /\ calls[t][1].op = "events.insert"
      /\ Slot(calls[t][1]) = SlotOf(body[t])
      /\ calls[t][1].res = "ok" =>
           /\ pc[t] = "done"
           /\ resp[t].status = 200
           /\ resp[t].body.ok
           /\ resp[t].body.eventId \in 1..Len(events)
           /\ events[resp[t].body.eventId] =
                Event(body[t].calendarId[1], SlotOf(body[t])[1], SlotOf(body[t])[2])

\* A booking succeeded on a slot that an earlier event already occupied.
C11_Witness ==
  \E t \in Tasks :
    /\ endpoint[t] = "book" /\ pc[t] = "done"
    /\ resp[t].status = 200 /\ resp[t].body.ok
    /\ \E i \in 1..Len(events) :
         /\ i < resp[t].body.eventId
         /\ Overlap(events[i], events[resp[t].body.eventId])

\* C12 as claimed: every /book response is {ok: true, eventId} or
\* 500 {ok: false, error: "booking_failed"}.
C12_TwoOutcomes ==
  \A t \in Tasks :
    (endpoint[t] = "book" /\ sent[t] > 0) =>
      \/ resp[t].status = 200 /\ resp[t].body.ok
      \/ resp[t] = [status |-> 500, body |-> [ok |-> FALSE, error |-> "booking_failed"]]

\* C12, amended: every /book response is one of three: 400
\* {error: "missing_fields"}, given exactly when calendarId, date or time is
\* missing; {ok: true, eventId}; or 500 {ok: false, error: "booking_failed"}.
C12_ThreeOutcomes ==
  \A t \in Tasks :
    (endpoint[t] = "book" /\ sent[t] > 0) =>
      /\ \/ resp[t] = [status |-> 400, body |-> [error |-> "missing_fields"]]
         \/ /\ resp[t].status = 200
            /\ DOMAIN resp[t].body = { "ok", "eventId" }
            /\ resp[t].body.ok
         \/ resp[t] = [status |-> 500, body |-> [ok |-> FALSE, error |-> "booking_failed"]]
      /\ resp[t].status = 400 <=> MissingFields(body[t])

C12_Witness ==
  \E t \in Tasks :
    /\ endpoint[t] = "book" /\ pc[t] = "done"
    /\ body[t].time = Absent
    /\ resp[t] = [status |-> 400, body |-> [error |-> "missing_fields"]]

\* Equal questions got equal answers: the calendar looked the same to both tasks.
SameAnswers(t1, t2) ==
  \A i \in 1..Len(calls[t1]), j \in 1..Len(calls[t2]) :
    (/\ Slot(calls[t1][i]) = Slot(calls[t2][j])
     /\ calls[t1][i].res # "pending"
     /\ calls[t2][j].res # "pending")
      => calls[t1][i].res = calls[t2][j].res

\* A step of an /availability handler.
AvailabilityStep(t) ==
  /\ endpoint'[t] = "availability"
  /\ Locals(t)' # Locals(t)

\* C13: two /availability requests with the same body and credential, to which
\* the calendar gives the same answers, query the same intervals in the same
\* order and, once answered, carry the same response; and no step of an
\* /availability handler changes the tokens or the calendar.
C13_SameRequestSameResult ==
  /\ [](\A t1, t2 \in Clients :
         (/\ t1 # t2
          /\ endpoint[t1] = "availability" /\ endpoint[t2] = "availability"
          /\ body[t1] = body[t2] /\ auth[t1] = auth[t2]
          /\ SameAnswers(t1, t2))
           => /\ \A k \in 1..Len(calls[t1]) :
                   k <= Len(calls[t2]) => Slot(calls[t1][k]) = Slot(calls[t2][k])
              /\ (pc[t1] = "done" /\ pc[t2] = "done")
                   => resp[t1] = resp[t2] /\ Len(calls[t1]) = Len(calls[t2]))
  /\ [][(\E t \in Clients : AvailabilityStep(t))
          => UNCHANGED << envTokens, fileTokens, events >>]_vars

\* Two identical requests, both scanned past busy candidates, answered alike.
C13_Witness ==
  \E t1, t2 \in Clients :
    /\ t1 # t2
    /\ AnsweredBusy(t1) /\ AnsweredBusy(t2)
    /\ body[t1] = body[t2]
    /\ Len(calls[t1]) >= 3
    /\ calls[t1] = calls[t2]
    /\ resp[t1] = resp[t2]
    /\ Len(resp[t1].body.sugerencias) = 1

\* The k-th candidate of task t's scan, whether or not the scan gets to it.
CandidateStart(t, k) == start[t] + k * StepOf(body[t])

\* It starts before workStart or ends after workEnd.
BeyondHours(t, k) ==
  \/ CandidateStart(t, k) < WorkStartOf(body[t])
  \/ CandidateStart(t, k) + DurationOf(body[t]) > WorkEndOf(body[t])

\* C14: the first candidate that starts before workStart or ends after workEnd
\* ends the scan: neither it nor any later candidate is queried, so a primary
\* time earlier than workStart - stepMin yields no suggestion; a candidate
\* ending exactly at workEnd is inside: the scan does not stop at it, and it is
\* suggested when its busy list is empty.
C14_BoundaryPolicy ==
  \A t \in Tasks :
    (endpoint[t] = "availability" /\ Len(calls[t]) >= 1) =>
      LET n == Len(Candidates(t))
      IN  /\ \A k \in 1..(MaxCalls + 1) : BeyondHours(t, k) => n < k
          /\ CandidateStart(t, 1) < WorkStartOf(body[t])
               => n = 0 /\ sug[t] = <<>>
                        /\ (AnsweredBusy(t) => resp[t].body.sugerencias = <<>>)
          /\ AnsweredBusy(t)
               => \/ Len(resp[t].body.sugerencias) >= MaxSugsOf(body[t])
                  \/ n >= 1 /\ n * StepOf(body[t]) > SearchCapMin
                  \/ BeyondHours(t, n + 1)
          /\ \A k \in 1..n :
               (Candidates(t)[k].timeMax = WorkEndOf(body[t])
                  /\ Candidates(t)[k].res = "empty")
                 => \E i \in 1..Len(sug[t]) :
                      sug[t][i] = FormatHHmm(Candidates(t)[k].timeMin)

\* A candidate ending exactly at workEnd was queried, found free and suggested;
\* the next one, ending after workEnd, ended the scan unqueried.
C14_Witness ==
  \E t \in Tasks :
    /\ AnsweredBusy(t)
    /\ Len(Candidates(t)) >= 1
    /\ LET last == Candidates(t)[Len(Candidates(t))]
       IN  /\ last.timeMax = WorkEndOf(body[t])
           /\ last.res = "empty"
           /\ resp[t].body.sugerencias = << FormatHHmm(last.timeMin) >>
    /\ BeyondHours(t, Len(Candidates(t)) + 1)
    /\ Len(resp[t].body.sugerencias) < MaxSugsOf(body[t])

\* A request of task t whose step and duration are positive.
PositiveRequest(t) ==
  endpoint[t] = "availability" /\ StepOf(body[t]) > 0 /\ DurationOf(body[t]) > 0

\* C15: an /availability request with stepMin > 0 and durationMin > 0, whose
\* free/busy queries each return or fail, issues a bounded number of queries
\* and ends with exactly one response, of status 200, 400 or 500.
C15_Termination ==
  /\ [](\A t \in Tasks :
         PositiveRequest(t) =>
           /\ Len(calls[t]) <= 2 + SearchCapMin \div StepOf(body[t])
           /\ sent[t] <= 1
           /\ (pc[t] = "done") = (sent[t] = 1)
           /\ sent[t] = 1 => resp[t].status \in {200, 400, 500})
  /\ \A t \in Tasks : PositiveRequest(t) ~> (pc[t] = "done" /\ sent[t] = 1)

\* A request that went through the longest scan and was answered once.
C15_Witness ==
  \E t \in Tasks :
    /\ PositiveRequest(t)
    /\ Len(calls[t]) = 2 + SearchCapMin \div StepOf(body[t])
    /\ \A k \in 1..Len(calls[t]) : calls[t][k].res = "busy"
    /\ pc[t] = "done"
    /\ sent[t] = 1
    /\ resp[t].status = 200

\* Task t's request has entered the forward scan: its primary slot was busy.
ReachedScan(t) ==
  endpoint[t] = "availability" /\ Len(calls[t]) >= 1 /\ calls[t][1].res = "busy"

\* C16: every request that reaches the forward scan has stepMin > 0,
\* durationMin > 0 and workStart < workEnd, and its scan never asks for the
\* same interval twice.
C16_ScanMeetsRequestInvariant ==
  \A t \in Tasks :
    ReachedScan(t) =>
      /\ StepOf(body[t]) > 0
      /\ DurationOf(body[t]) > 0
      /\ WorkStartOf(body[t]) < WorkEndOf(body[t])
      /\ \A i, j \in 1..Len(calls[t]) :
           i < j => Slot(calls[t][i]) # Slot(calls[t][j])

\* C17: a verdict reserves nothing. Whatever slots the clients have been told
\* are free and whatever events the calendar holds, a /book request issues its
\* insert for the slot, and an accepted insert is answered {ok: true, eventId}
\* with the new event on the calendar: no handler prevents or reports a double
\* booking.
C17_VerdictReservesNothing ==
  \A t \in Clients :
    endpoint[t] = "book" =>
      /\ Len(calls[t]) = 1
      /\ calls[t][1].op = "events.insert"
      /\ Slot(calls[t][1]) = SlotOf(body[t])
      /\ calls[t][1].res = "ok" =>
           /\ pc[t] = "done"
           /\ resp[t].status = 200
           /\ DOMAIN resp[t].body = {"ok", "eventId"}
           /\ resp[t].body.ok
           /\ resp[t].body.eventId \in 1..Len(events)
           /\ << events[resp[t].body.eventId].start,
                 events[resp[t].body.eventId].end >> = SlotOf(body[t])

\* Both clients were told the same slot is free, both booked it, both bookings
\* succeeded and the calendar holds the two overlapping events.
C17_Witness ==
  \E t1, t2 \in Clients :
    /\ t1 # t2
    /\ told[t1] = SlotOf(PlainBody) /\ told[t2] = SlotOf(PlainBody)
    /\ endpoint[t1] = "book" /\ endpoint[t2] = "book"
    /\ body[t1] = PlainBody /\ body[t2] = PlainBody
    /\ pc[t1] = "done" /\ pc[t2] = "done"
    /\ resp[t1].status = 200 /\ resp[t2].status = 200
    /\ resp[t1].body.ok /\ resp[t2].body.ok
    /\ resp[t1].body.eventId # resp[t2].body.eventId
    /\ Overlap(events[resp[t1].body.eventId], events[resp[t2].body.eventId])

\* Task t serves a Calendar endpoint and its handler has resolved the credentials.
GuardReached(t) == endpoint[t] \in CalendarEndpoints /\ auth[t] # "unread"

\* C18, as stated: the credentials a handler's guard checks are those resolved
\* when the process started, whatever /oauth2callback has written since.
C18_ResolvedOnceAtStartup ==
  \A t \in Tasks : GuardReached(t) => auth[t] = boot

\* C18, amended: the inline secret is fixed at startup and, when present, is
\* what every guard checks, the file never being consulted; when it is absent
\* every request checks the token file as it is at that moment.
C18_InlineFixedFileReread ==
  /\ envTokens # "none" => boot = envTokens
  /\ \A t \in Tasks :
       GuardReached(t) =>
         /\ envTokens # "none" => auth[t] = envTokens /\ auth[t] = boot
         /\ envTokens = "none" => auth[t] = fileTokens

\* With no inline secret and no credentials at startup, a request passed the
\* guard on the tokens /oauth2callback wrote meanwhile.
C18_Witness ==
  \E t \in Tasks :
    /\ GuardReached(t)
    /\ envTokens = "none"
    /\ boot = "none"
    /\ auth[t] = "refresh"
    /\ calls[t] # <<>>

\* The k-th query of task t came back without an entry for the calendar.
NoEntry(t, k) ==
  /\ calls[t][k].op = "freebusy.query"
  /\ calls[t][k].res \notin {"pending", "fail"}
  /\ ~calls[t][k].entry

\* C19: a free/busy response holding no entry for the queried calendar counts
\* as not busy: for the primary slot the answer is {disponible: true,
\* sugerencias: []}, a candidate is recorded as a suggestion, and the request
\* does not fail because of it.
C19_MissingEntryIsFree ==
  \A t \in Tasks :
    endpoint[t] = "availability" =>
      /\ \A k \in 1..Len(calls[t]) :
           NoEntry(t, k) =>
             /\ calls[t][k].res = "empty"
             /\ k = 1 => /\ pc[t] = "done"
                         /\ resp[t] = [status |-> 200,
                                       body |-> [disponible |-> TRUE,
                                                 sugerencias |-> <<>>]]
             /\ k > 1 => \E i \in 1..Len(sug[t]) :
                           sug[t][i] = FormatHHmm(calls[t][k].timeMin)
      /\ (pc[t] = "done" /\ resp[t].status = 500 /\ calls[t] # <<>>)
           => calls[t][Len(calls[t])].res = "fail"

\* A candidate the calendar holds an event on came back without an entry and
\* was returned as a suggestion.
C19_Witness ==
  \E t \in Tasks :
    /\ AnsweredBusy(t)
    /\ \E k \in 2..Len(calls[t]) :
         /\ NoEntry(t, k)
         /\ QueryBusy(calls[t][k].calendarId, calls[t][k].timeMin,
                      calls[t][k].timeMax) # {}
         /\ \E i \in 1..Len(resp[t].body.sugerencias) :
              resp[t].body.sugerencias[i] = FormatHHmm(calls[t][k].timeMin)

\* The primary slot of body b starts before workStart or ends after workEnd.
PrimaryOffHours(b) ==
  \/ TzParse(b.time[1]) < WorkStartOf(b)
  \/ TzParse(b.time[1]) + DurationOf(b) > WorkEndOf(b)

\* C20: the working hours bound the suggestions only. A primary slot outside
\* them is queried like any other, and when its busy list is empty the answer
\* is {disponible: true, sugerencias: []}.
C20_PrimaryIgnoresWorkingHours ==
  \A t \in Tasks :
    (/\ endpoint[t] = "availability"
     /\ body[t].calendarId \notin {Absent, <<"">>}
     /\ body[t].date # Absent
     /\ body[t].time # Absent
     /\ auth[t] = "refresh"
     /\ PrimaryOffHours(body[t]))
      => /\ Len(calls[t]) >= 1
         /\ calls[t][1].op = "freebusy.query"
         /\ Slot(calls[t][1]) = SlotOf(body[t])
         /\ calls[t][1].res = "empty"
              => /\ pc[t] = "done"
                 /\ resp[t] = [status |-> 200,
                               body |-> [disponible |-> TRUE, sugerencias |-> <<>>]]

\* A slot starting before workStart, and one ending after workEnd, declared free.
C20_Witness ==
  \E t \in Tasks :
    /\ Answered200(t)
    /\ resp[t].body.disponible
    /\ calls[t][1].res = "empty"
    /\ \/ start[t] < WorkStartOf(body[t])
       \/ start[t] + DurationOf(body[t]) > WorkEndOf(body[t])

====
